---- MODULE Spec2Model ----
(***************************************************************************)
(* NADOCast monitor: the polling cycle (checkNadocast), the state store,   *)
(* the run locator seen through its three listing fetches, and the Bluesky *)
(* publisher (login, uploadImages, createPost, notifyBluesky).             *)
(*                                                                         *)
(* Node runs one thread: code between two awaits is one atomic step, and   *)
(* every await is a point where the interval timer may fire another        *)
(* invocation of checkNadocast.  Each invocation has its own locals, kept  *)
(* in cyc[i]; module-level state (isProcessing, the agent's session, the   *)
(* state file) is shared.                                                  *)
(***************************************************************************)
EXTENDS Naturals, Sequences, FiniteSets

VARIABLES
    cyc,           \* cyc[i]: locals and observed effects of invocation i of checkNadocast
    isProcessing,  \* the module-level lock flag
    session,       \* agent.session is set
    stateDir,      \* the state directory exists
    stateFile,     \* the state file: NoFile, or [exists |-> TRUE, content |-> tokens]
    prev,          \* summary of the cycle that ended last
    proc           \* the process: its environment and how far its startup got

vars == <<cyc, isProcessing, session, stateDir, stateFile, prev, proc>>

----------------------------------------------------------------------------
\* Bounds of the model.
MaxInvocations == 3     \* invocations of checkNadocast (the initial call and timer firings)
MaxImages == 2          \* length of the enumerated image listings
MaxBuffers == 5         \* image buffers handed to one notifyBluesky call
MaxTextMargin == 2      \* post text lengths range this far around MAX_POST_LENGTH
MaxLinks == 2           \* <a> elements of an enumerated page
MaxLiveInvocations == 2 \* invocations of checkNadocast followed to their end under fairness

\* Program constants.
MAX_POST_LENGTH == 300
MAX_IMAGES_PER_POST == 4
MAX_RETRIES == 3
RETRY_DELAY_MS == 5000
Dot == 46               \* the character of the '...' marker

Invocations == 1..MaxInvocations

\* Text is a sequence of tokens: a run identifier is <<date, "_", time>>, and
\* WS is one whitespace character.
WS == " "
Days == {"20250407", "20250408"}
Times == {"t00z"}

SIG == "sig_tornado"
PLAIN == "tornado"
Kinds == {SIG, PLAIN}

\* The run directory of the spec's end-to-end scenario: 5 matching images, 2
\* sig_tornado and 3 tornado (the kind of each matching link, in page order).
ScenarioListing == <<PLAIN, SIG, PLAIN, SIG, PLAIN>>

\* What an image-listing fetch may return: the scenario's directory, or one
\* that holds only its first n files so far.
ImageListings ==
    {SubSeq(ScenarioListing, 1, n) : n \in 0..MaxImages} \cup {ScenarioListing}

----------------------------------------------------------------------------
\* Optional values: string | null.
None == [some |-> FALSE, val |-> <<>>]
Some(v) == [some |-> TRUE, val |-> v]

\* RunInfo | null; runId = `${dayYYYYMMDD}_${runTime}`.
NoRun == [found |-> FALSE, runId |-> <<>>]
RunInfoNoSeparator(day, runTime) == [found |-> TRUE, runId |-> <<day, runTime>>]
RunInfo(day, runTime) == [found |-> TRUE, runId |-> <<day, "_", runTime>>]
RunIds == {RunInfo(d, t).runId : d \in Days, t \in Times}

\* String.prototype.trim on token text.
RECURSIVE TrimStart(_)
TrimStart(s) == IF s # <<>> /\ Head(s) = WS THEN TrimStart(Tail(s)) ELSE s
RECURSIVE TrimEnd(_)
TrimEnd(s) ==
    IF s # <<>> /\ s[Len(s)] = WS THEN TrimEnd(SubSeq(s, 1, Len(s) - 1)) ELSE s
Trim(s) == TrimEnd(TrimStart(s))

NoFile == [exists |-> FALSE, content |-> <<>>]
File(content) == [exists |-> TRUE, content |-> content]

----------------------------------------------------------------------------
\* Locals of one invocation of checkNadocast, with what the invocation has done
\* so far (calls made, posts created).
NoSummary == [outcome |-> "none", runId |-> <<>>, tried |-> FALSE, posted |-> FALSE]

Fresh ==
    [ pc |-> "unfired",          \* the await the invocation is suspended at
      outcome |-> "none",        \* the exit path taken, once ended
      located |-> FALSE,         \* findLatestRunInfo has returned
      stageMiss |-> 0,           \* the stage (1..3) whose listing gave no directory
      errStage |-> 0,            \* the stage (1..3) whose fetchHtml threw
      page |-> <<>>,             \* the <a> elements of the page fetched last
      pageUrl |-> <<>>,          \* the URL it was fetched from
      patternRegex |-> "",       \* the pattern of the last findLatestDirectoryUrl call
      dirUrl |-> None,           \* what that call returned
      runUrl |-> <<>>,           \* latestRun.runUrl
      selected |-> <<>>,         \* the URLs findTornadoImageUrls returned
      day |-> "",                \* dayYYYYMMDD
      latest |-> NoRun,          \* latestRun
      readDone |-> FALSE,        \* readLastProcessedRunId has returned
      stored |-> None,           \* lastProcessedId
      listed |-> FALSE,          \* findTornadoImageUrls has returned
      images |-> <<>>,           \* imageUrls (the kind of each)
      idx |-> 0,                 \* position of the for-of loop
      imageBuffers |-> <<>>,     \* imageBuffers passed to notifyBluesky
      altTexts |-> <<>>,         \* altTexts passed to notifyBluesky
      bufs |-> <<>>,             \* images of uploadImages
      upIdx |-> 0,               \* i of uploadImages
      attempts |-> 0,            \* attempts of the retry loop in progress
      uploaded |-> <<>>,         \* uploadedImages
      listingFetches |-> 0,      \* directory-listing fetches of the run locator
      imageListFetches |-> 0,    \* fetches of the run's image listing
      downloads |-> 0,           \* image downloads
      anyDownloaded |-> FALSE,   \* some image download returned a buffer
      stateReads |-> 0,          \* calls of readLastProcessedRunId
      stateWrites |-> 0,         \* calls of writeLastProcessedRunId
      platformTouched |-> FALSE, \* some agent.login / uploadBlob / post call was made
      posts |-> <<>>,            \* posts created, each the images it embeds
      anySuccess |-> FALSE,      \* some notifyBluesky call returned normally
      pubLoginFails |-> 0,       \* failed agent.login calls of the current publish
      pubUploadCalls |-> 0,      \* agent.uploadBlob calls of the current publish
      pubPostCalls |-> 0,        \* agent.post calls of the current publish
      pubPostOk |-> FALSE,       \* an agent.post call of the current publish succeeded
      pubAuth |-> FALSE,         \* agent.login called by the last notifyBluesky call
      pubResult |-> "none",      \* how the last notifyBluesky call ended
      postError |-> "none",      \* the error of the last agent.post call, if it threw
      wait |-> 0,                \* the setTimeout delay awaited after the last agent call
      text |-> <<>>,             \* text given to createPost (character codes)
      postText |-> <<>>,         \* postText of createPost
      fileAtStart |-> NoFile ]   \* the state file when this one started

RunningPcs == {"locate1", "locate2", "locate3", "read", "listing", "write_empty",
               "download", "login", "upload", "post", "write_final"}
Running(i) == cyc[i].pc \in RunningPcs

\* What is remembered of an ended cycle: its exit path, its run, whether it
\* entered the per-image loop and whether it created a post.
Summary(c, outcome) ==
    [outcome |-> outcome, runId |-> c.latest.runId, tried |-> c.idx > 0,
     posted |-> c.posts # <<>>]

\* A finished invocation's locals are gone once the next invocation starts.
Forget(f) ==
    [j \in Invocations |->
        IF f[j].pc \in {"done", "rejected"} THEN [Fresh EXCEPT !.pc = "retired"] ELSE f[j]]

----------------------------------------------------------------------------
\* config.ts, evaluated when index.ts imports it.  An environment is the set
\* of variables that are set; the enumerated ones set no optional variable.
RequiredKeys == {"BLUESKY_HANDLE", "BLUESKY_APP_PASSWORD"}
Environments == SUBSET RequiredKeys

\* The getEnvVariable calls of the config object: <<key, has a default>>.
ConfigKeys ==
    << <<"MONITOR_URL", TRUE>>, <<"PDS_URL", TRUE>>,
       <<"BLUESKY_HANDLE", FALSE>>, <<"BLUESKY_APP_PASSWORD", FALSE>>,
       <<"CHECK_INTERVAL_MINUTES", TRUE>>, <<"STATE_FILE_PATH", TRUE>>,
       <<"LOG_LEVEL", TRUE>> >>

GetEnvVariableLenient(env, key, hasDefault) ==
    IF key \in env THEN "value" ELSE "default"

\* getEnvVariable: the value, the default, or a throw.
GetEnvVariable(env, key, hasDefault) ==
    IF key \in env THEN "value"
    ELSE IF hasDefault THEN "default"
    ELSE "throw"

Loaded(env) == [phase |-> "running", env |-> env]

\* The module body of config.ts, then index.ts up to runMonitor()'s first
\* await: a throw while the config object is built is an uncaught exception
\* of the import, and the process ends.
LoadConfig ==
    /\ proc.phase = "loading"
    /\ proc' = IF \E k \in 1..Len(ConfigKeys) :
                    GetEnvVariable(proc.env, ConfigKeys[k][1], ConfigKeys[k][2]) = "throw"
               THEN [proc EXCEPT !.phase = "aborted"]
               ELSE Loaded(proc.env)
    /\ UNCHANGED <<cyc, isProcessing, session, stateDir, stateFile, prev>>

----------------------------------------------------------------------------
\* checkNadocast, entry: the lock test and the lock acquisition.
LockNeverHeld == FALSE

LockHeld == isProcessing

\* runMonitor awaits the first checkNadocast() before it calls setInterval, and
\* exits the process when that call rejects.
TimerArmed == cyc[1].pc \in {"done", "retired"}

TimerFireSkipReleases(i) ==
    /\ proc.phase = "running"
    /\ cyc[i].pc = "unfired"
    /\ i = 1 \/ (TimerArmed /\ cyc[i - 1].pc # "unfired")
    /\ IF LockHeld
       THEN /\ cyc' = [Forget(cyc) EXCEPT ![i] = [Fresh EXCEPT !.pc = "skipped"]]
            /\ isProcessing' = FALSE
       ELSE /\ cyc' = [Forget(cyc) EXCEPT ![i] =
                         [Fresh EXCEPT !.pc = "locate1", !.fileAtStart = stateFile]]
            /\ isProcessing' = TRUE
    /\ UNCHANGED <<session, stateDir, stateFile, prev, proc>>

TimerFire(i) ==
    /\ proc.phase = "running"
    /\ cyc[i].pc = "unfired"
    /\ i = 1 \/ (TimerArmed /\ cyc[i - 1].pc # "unfired")
    /\ IF LockHeld
       THEN /\ cyc' = [Forget(cyc) EXCEPT ![i] = [Fresh EXCEPT !.pc = "skipped"]]
            /\ UNCHANGED isProcessing
       ELSE /\ cyc' = [Forget(cyc) EXCEPT ![i] =
                         [Fresh EXCEPT !.pc = "locate1", !.fileAtStart = stateFile]]
            /\ isProcessing' = TRUE
    /\ UNCHANGED <<session, stateDir, stateFile, prev, proc>>

\* The end of an invocation: `isProcessing = false; return` and the finally block
\* run without an await in between.
FlagLeftSet == TRUE

ReleasedFlag == FALSE

FinishHangs(i, c, outcome) == UNCHANGED <<cyc, isProcessing, prev, proc>>

Finish(i, c, outcome) ==
    /\ cyc' = [cyc EXCEPT ![i] = [c EXCEPT !.pc = "done", !.outcome = outcome]]
    /\ isProcessing' = ReleasedFlag
    /\ prev' = Summary(c, outcome)
    /\ UNCHANGED proc

\* An exception inside the try block: the catch logs it, the finally releases
\* the lock, and the promise resolves.
HandleFaultUncaught(i, c) ==
    /\ cyc' = [cyc EXCEPT ![i] = [c EXCEPT !.pc = "rejected", !.outcome = "error"]]
    /\ isProcessing' = ReleasedFlag
    /\ prev' = Summary(c, "error")
    /\ UNCHANGED proc

HandleFault(i, c) == Finish(i, c, "error")

Continue(i, c) ==
    /\ cyc' = [cyc EXCEPT ![i] = c]
    /\ UNCHANGED <<isProcessing, prev, proc>>

----------------------------------------------------------------------------
\* scraper.ts.  An href and a URL are sequences of tokens ("/" and the names
\* between the slashes); a page is the sequence of its <a> elements, each with
\* its class attribute and its href.
Origin == "http://data.nadocast.com"
MONITOR_URL == <<Origin, "/">>
BadScheme == "http://["         \* start of an href that new URL() rejects
Months == {"202503", "202504"}
DayTokens == Days \cup {"20250409"}
RunTokens == Times \cup {"t12z", "t18z"}

Link(cls, href) == [cls |-> cls, href |-> href]

\* The UTF-16 code units of a directory token.
CodeUnits(t) ==
    CASE t = "202503" -> <<50, 48, 50, 53, 48, 51>>
      [] t = "202504" -> <<50, 48, 50, 53, 48, 52>>
      [] t = "20250407" -> <<50, 48, 50, 53, 48, 52, 48, 55>>
      [] t = "20250408" -> <<50, 48, 50, 53, 48, 52, 48, 56>>
      [] t = "20250409" -> <<50, 48, 50, 53, 48, 52, 48, 57>>
      [] t = "t00z" -> <<116, 48, 48, 122>>
      [] t = "t12z" -> <<116, 49, 50, 122>>
      [] t = "t18z" -> <<116, 49, 56, 122>>

\* The > of two JavaScript strings: by code units, a proper prefix is smaller.
RECURSIVE UnitsGreater(_, _)
UnitsGreater(x, y) ==
    IF x = <<>> THEN FALSE
    ELSE IF y = <<>> THEN TRUE
    ELSE IF Head(x) # Head(y) THEN Head(x) > Head(y)
    ELSE UnitsGreater(Tail(x), Tail(y))

StringGreater(a, b) == UnitsGreater(CodeUnits(a), CodeUnits(b))

\* The three directory patterns; the text they match names a token set.
YEAR_MONTH_REGEX == "YEAR_MONTH_REGEX"
DAY_REGEX == "DAY_REGEX"
RUN_REGEX == "RUN_REGEX"

\* /\/(token)\/$/ on a text: the captured token, or "" when there is no match.
MatchTail(text, tokens) ==
    LET n == Len(text)
    IN  IF n >= 3 /\ text[n] = "/" /\ text[n - 1] \in tokens /\ text[n - 2] = "/"
        THEN text[n - 1] ELSE ""

\* href.match(patternRegex), then match[1]; YEAR_MONTH_REGEX is anchored at
\* both ends, the other two at the end only.
Match(text, patternRegex) ==
    CASE patternRegex = YEAR_MONTH_REGEX ->
             IF Len(text) = 3 THEN MatchTail(text, Months) ELSE ""
      [] patternRegex = DAY_REGEX -> MatchTail(text, DayTokens)
      [] patternRegex = RUN_REGEX -> MatchTail(text, RunTokens)

\* new URL(href, pageUrl).toString(), pageUrl ending in "/": None when the
\* constructor throws.
ResolveUrl(href, pageUrl) ==
    IF href[1] = BadScheme THEN None
    ELSE IF href[1] = "/" THEN Some(<<Origin>> \o href)
    ELSE Some(pageUrl \o href)

\* findLatestDirectoryUrl after the fetch: the .each callback over the
\* a.directory elements, from element k on; acc is [value, url] for
\* latestDirValue and latestDirUrl.
RECURSIVE EachDirectoryLink(_, _, _, _, _)
EachDirectoryLink(page, k, patternRegex, pageUrl, acc) ==
    IF k > Len(page) THEN acc
    ELSE LET href == page[k].href
             dirValue == IF page[k].cls = "directory" /\ href # <<>>
                         THEN Match(href, patternRegex) ELSE ""
             next ==
                 IF dirValue # "" /\ (acc.value = "" \/ StringGreater(dirValue, acc.value))
                 THEN [value |-> dirValue,
                       url |-> IF ResolveUrl(href, pageUrl).some
                               THEN ResolveUrl(href, pageUrl) ELSE acc.url]
                 ELSE acc
         IN  EachDirectoryLink(page, k + 1, patternRegex, pageUrl, next)

FindLatestDirectoryUrlFirstLink(page, patternRegex, pageUrl) ==
    IF EachDirectoryLink(page, 1, patternRegex, pageUrl, [value |-> "", url |-> None]).url.some
    THEN EachDirectoryLink(page, 1, patternRegex, pageUrl, [value |-> "", url |-> None]).url
    ELSE IF page # <<>> /\ page[1].href # <<>> THEN ResolveUrl(page[1].href, pageUrl)
    ELSE None

FindLatestDirectoryUrl(page, patternRegex, pageUrl) ==
    EachDirectoryLink(page, 1, patternRegex, pageUrl, [value |-> "", url |-> None]).url

----------------------------------------------------------------------------
\* findLatestRunInfo: three findLatestDirectoryUrl calls, each one fetchHtml.
\* A fetch may throw (caught at the end of findLatestRunInfo); else the page
\* it returns is parsed.

\* checkNadocast, `if (!latestRun)`.
AfterLocateUnchecked(i, c) == Continue(i, [c EXCEPT !.pc = "read"])

AfterLocate(i, c) ==
    IF ~c.latest.found THEN Finish(i, c, "not_found")
    ELSE Continue(i, [c EXCEPT !.pc = "read"])

StageNumber(stage) ==
    CASE stage = "locate1" -> 1 [] stage = "locate2" -> 2 [] stage = "locate3" -> 3

\* The pattern of each stage's findLatestDirectoryUrl call.
StagePattern(stage) ==
    CASE stage = "locate1" -> YEAR_MONTH_REGEX
      [] stage = "locate2" -> DAY_REGEX
      [] stage = "locate3" -> RUN_REGEX

\* The match on the URL the stage returned: the year-month one is the
\* unanchored /\/(\d{6})\/$/, the others are DAY_REGEX and RUN_REGEX.
ExtractToken(url, stage) ==
    IF stage = "locate1" THEN MatchTail(url, Months) ELSE Match(url, StagePattern(stage))

\* findLatestRunInfo, `if (!latest...Url) return null`.
StageMissedGoesOn(i, c, stage) ==
    IF stage = "locate3"
    THEN AfterLocate(i, [c EXCEPT !.located = TRUE, !.latest = NoRun,
                                  !.stageMiss = StageNumber(stage)])
    ELSE Continue(i, [c EXCEPT !.stageMiss = StageNumber(stage),
                               !.pc = IF stage = "locate1" THEN "locate2" ELSE "locate3"])

StageMissed(i, c, stage) ==
    AfterLocate(i, [c EXCEPT !.located = TRUE, !.latest = NoRun,
                             !.stageMiss = StageNumber(stage)])

\* The URL a stage of findLatestRunInfo fetches: MONITOR_URL at the first
\* stage, the directory the stage before it found at the others.
StageUrl(i, stage) ==
    IF stage = "locate1" THEN MONITOR_URL ELSE cyc[i].dirUrl.val

\* One stage of findLatestRunInfo: fetchHtml of the stage's URL, which throws
\* or answers one of pages, findLatestDirectoryUrl on the page, the token
\* extraction.
LocateStage(i, stage, pages) ==
    /\ cyc[i].pc = stage
    /\ LET c == [cyc[i] EXCEPT !.listingFetches = @ + 1]
           pageUrl == StageUrl(i, stage)
       IN  \/ AfterLocate(i, [c EXCEPT !.located = TRUE, !.latest = NoRun,
                                       !.errStage = StageNumber(stage)])
           \/ \E page \in pages :
                LET url == FindLatestDirectoryUrl(page, StagePattern(stage), pageUrl)
                    d == [c EXCEPT !.page = page, !.pageUrl = pageUrl,
                                   !.patternRegex = StagePattern(stage), !.dirUrl = url]
                IN  IF ~url.some THEN StageMissed(i, d, stage)
                    ELSE LET token == ExtractToken(url.val, stage)
                         IN  IF token = ""
                             THEN AfterLocate(i, [d EXCEPT !.located = TRUE,
                                                           !.latest = NoRun])
                             ELSE CASE stage = "locate1" ->
                                           Continue(i, [d EXCEPT !.pc = "locate2"])
                                    [] stage = "locate2" ->
                                           Continue(i, [d EXCEPT !.pc = "locate3",
                                                                 !.day = token])
                                    [] stage = "locate3" ->
                                           AfterLocate(i, [d EXCEPT
                                               !.located = TRUE,
                                               !.latest = RunInfo(c.day, token),
                                               !.runUrl = url.val])
    /\ UNCHANGED <<session, stateDir, stateFile>>

\* A directory page at pageUrl with one a.directory link per token.
DirPage(pageUrl, tokens) ==
    [k \in 1..Len(tokens) |-> Link("directory", Tail(pageUrl) \o <<tokens[k], "/">>)]

\* The server of the spec's scenarios: a root of month directories (or of day
\* directories, or empty), months of day directories, days of run directories.
RootScenarioPages(pageUrl) ==
    {<<>>, DirPage(pageUrl, <<"202503", "202504">>),
           DirPage(pageUrl, <<"20250407", "20250408">>)}

DayScenarioPages(pageUrl) ==
    {DirPage(pageUrl, SubSeq(<<"20250407", "20250408">>, 1, n)) : n \in 0..2}

RunScenarioPages(pageUrl) == {<<>>, DirPage(pageUrl, <<"t00z">>)}

LocateYearMonth(i) == LocateStage(i, "locate1", RootScenarioPages(StageUrl(i, "locate1")))
LocateDay(i) == LocateStage(i, "locate2", DayScenarioPages(StageUrl(i, "locate2")))
LocateRun(i) == LocateStage(i, "locate3", RunScenarioPages(StageUrl(i, "locate3")))

----------------------------------------------------------------------------
\* The state store.  A call is one step here: its inner awaits (access, mkdir,
\* readFile / writeFile) touch only the state directory and file, which nothing
\* but the running cycle uses.  `fault` names the file-system call that fails
\* with an error other than ENOENT, if any: fs.access, fs.mkdir, or the
\* readFile / writeFile itself ("io").  writeFile opens the file with flag 'w',
\* so a write that fails after the open ("io_truncated") leaves it empty.
IoFaults == {"none", "access", "mkdir", "io", "io_truncated"}

\* ensureStateDirectoryExists: [ok, dir] = (it returned, the directory exists after).
EnsureStateDirectoryExists(fault) ==
    IF fault = "access" THEN [ok |-> FALSE, dir |-> stateDir]
    ELSE IF stateDir THEN [ok |-> TRUE, dir |-> TRUE]
    ELSE IF fault = "mkdir" THEN [ok |-> FALSE, dir |-> FALSE]
    ELSE [ok |-> TRUE, dir |-> TRUE]

ReadLastProcessedRunIdNoTrim(fault) ==
    LET e == EnsureStateDirectoryExists(fault)
    IN  IF ~e.ok THEN [ok |-> FALSE, dir |-> e.dir, val |-> None]
        ELSE IF fault = "io" THEN [ok |-> FALSE, dir |-> e.dir, val |-> None]
        ELSE IF ~stateFile.exists THEN [ok |-> TRUE, dir |-> e.dir, val |-> None]
        ELSE [ok |-> TRUE, dir |-> e.dir,
              val |-> IF Len(stateFile.content) > 0 THEN Some(stateFile.content)
                      ELSE None]

\* readLastProcessedRunId: [ok, dir, val]; ~ok is a throw.
ReadLastProcessedRunId(fault) ==
    LET e == EnsureStateDirectoryExists(fault)
    IN  IF ~e.ok THEN [ok |-> FALSE, dir |-> e.dir, val |-> None]
        ELSE IF fault = "io" THEN [ok |-> FALSE, dir |-> e.dir, val |-> None]
        ELSE IF ~stateFile.exists THEN [ok |-> TRUE, dir |-> e.dir, val |-> None]
        ELSE LET trimmedContent == Trim(stateFile.content)
             IN  [ok |-> TRUE, dir |-> e.dir,
                  val |-> IF Len(trimmedContent) > 0 THEN Some(trimmedContent) ELSE None]

WriteLastProcessedRunIdAppends(runId, fault) ==
    LET e == EnsureStateDirectoryExists(fault)
    IN  IF ~e.ok \/ fault = "io" THEN [ok |-> FALSE, dir |-> e.dir, file |-> stateFile]
        ELSE IF fault = "io_truncated" THEN [ok |-> FALSE, dir |-> e.dir, file |-> File(<<>>)]
        ELSE [ok |-> TRUE, dir |-> e.dir, file |-> File(stateFile.content \o Trim(runId))]

WriteLastProcessedRunIdSwallows(runId, fault) ==
    LET e == EnsureStateDirectoryExists(fault)
    IN  IF ~e.ok \/ fault = "io" THEN [ok |-> TRUE, dir |-> e.dir, file |-> stateFile]
        ELSE IF fault = "io_truncated" THEN [ok |-> TRUE, dir |-> e.dir, file |-> File(<<>>)]
        ELSE [ok |-> TRUE, dir |-> e.dir, file |-> File(Trim(runId))]

\* writeLastProcessedRunId: [ok, dir, file]; ~ok is a throw.
WriteLastProcessedRunId(runId, fault) ==
    LET e == EnsureStateDirectoryExists(fault)
    IN  IF ~e.ok \/ fault = "io" THEN [ok |-> FALSE, dir |-> e.dir, file |-> stateFile]
        ELSE IF fault = "io_truncated" THEN [ok |-> FALSE, dir |-> e.dir, file |-> File(<<>>)]
        ELSE [ok |-> TRUE, dir |-> e.dir, file |-> File(Trim(runId))]

\* A fault the file system can produce in the current state.
Possible(fault) == fault = "mkdir" => ~stateDir

----------------------------------------------------------------------------
\* checkNadocast, steps 2 and 3: read the state and compare.
RunNeverProcessed(c, lastProcessedId) == FALSE

RunAlreadyProcessed(c, lastProcessedId) ==
    lastProcessedId.some /\ c.latest.runId = lastProcessedId.val

ReadStateIgnoringFault(i) ==
    /\ cyc[i].pc = "read"
    /\ \E fault \in IoFaults \ {"io_truncated"} :
         /\ Possible(fault)
         /\ LET r == ReadLastProcessedRunId(fault)
                c == [cyc[i] EXCEPT !.stateReads = @ + 1]
            IN  /\ stateDir' = r.dir
                /\ IF ~r.ok THEN Continue(i, [c EXCEPT !.pc = "listing"])
                   ELSE LET d == [c EXCEPT !.readDone = TRUE, !.stored = r.val]
                        IN  IF RunAlreadyProcessed(d, r.val)
                            THEN Finish(i, d, "already_processed")
                            ELSE Continue(i, [d EXCEPT !.pc = "listing"])
    /\ UNCHANGED <<session, stateFile>>

ReadState(i) ==
    /\ cyc[i].pc = "read"
    /\ \E fault \in IoFaults \ {"io_truncated"} :
         /\ Possible(fault)
         /\ LET r == ReadLastProcessedRunId(fault)
                c == [cyc[i] EXCEPT !.stateReads = @ + 1]
            IN  /\ stateDir' = r.dir
                /\ IF ~r.ok THEN HandleFault(i, c)
                   ELSE LET d == [c EXCEPT !.readDone = TRUE, !.stored = r.val]
                        IN  IF RunAlreadyProcessed(d, r.val)
                            THEN Finish(i, d, "already_processed")
                            ELSE Continue(i, [d EXCEPT !.pc = "listing"])
    /\ UNCHANGED <<session, stateFile>>

\* checkNadocast, step 4: findTornadoImageUrls, one fetchHtml that may throw.
\* The hrefs of a run directory: tokens again, the last one the extension.
PlainHref == <<"nadocast_conus", "_", "tornado_", "f02-35", ".png">>
SigHref == <<"nadocast_conus", "_", "sig_", "tornado_", "f02-35", ".png">>
AbsCalibHref == <<"nadocast_conus", "_", "tornado_", "abs_calib", "_", "f02-35", ".png">>
LifeRiskHref == <<"nadocast_conus", "_", "sig_", "tornado_", "life_risk", "_", "f02-35", ".png">>
UpperHref == <<"NADOCAST_CONUS", "_", "TORNADO_", "F02-35", ".PNG">>
HailHref == <<"nadocast_conus", "_", "hail_", "f02-35", ".png">>
BadHref == <<BadScheme, "_", "tornado_", "f02-35", ".png">>

\* The i flag of TORNADO_IMG_REGEX.
LowerCase(t) ==
    CASE t = "TORNADO_" -> "tornado_"
      [] t = ".PNG" -> ".png"
      [] t = "NADOCAST_CONUS" -> "nadocast_conus"
      [] t = "F02-35" -> "f02-35"
      [] OTHER -> t

\* TORNADO_IMG_REGEX.test(href): /_(sig_)?tornado_.*\.png$/i.
TornadoImgRegexTest(href) ==
    \E k \in 1..Len(href) :
        /\ LowerCase(href[k]) = "_"
        /\ \/ k + 1 < Len(href) /\ LowerCase(href[k + 1]) = "tornado_"
           \/ /\ k + 2 < Len(href)
              /\ LowerCase(href[k + 1]) = "sig_"
              /\ LowerCase(href[k + 2]) = "tornado_"
        /\ LowerCase(href[Len(href)]) = ".png"

\* href.includes(s), for an s that is one token.
Includes(href, s) == \E k \in 1..Len(href) : href[k] = s

FindTornadoImageUrlsNoExclusion(page, runDirUrl) ==
    LET Relevant(link) ==
            /\ link.href # <<>>
            /\ TornadoImgRegexTest(link.href)
            /\ ResolveUrl(link.href, runDirUrl).some
        links == SelectSeq(page, Relevant)
    IN  [k \in 1..Len(links) |-> ResolveUrl(links[k].href, runDirUrl).val]

\* findTornadoImageUrls after the fetch: the .each callback over all <a>
\* elements; a link whose URL cannot be built is logged and left out.
FindTornadoImageUrls(page, runDirUrl) ==
    LET Relevant(link) ==
            /\ link.href # <<>>
            /\ TornadoImgRegexTest(link.href)
            /\ ~Includes(link.href, "abs_calib")
            /\ ~Includes(link.href, "life_risk")
            /\ ResolveUrl(link.href, runDirUrl).some
        links == SelectSeq(page, Relevant)
    IN  [k \in 1..Len(links) |-> ResolveUrl(links[k].href, runDirUrl).val]

\* The kind of image a URL names, and a run directory page with one link per
\* kind of a listing.
KindOf(url) == IF Includes(url, "sig_") THEN SIG ELSE PLAIN

ImagePage(kinds) ==
    [k \in 1..Len(kinds) |-> Link("", IF kinds[k] = SIG THEN SigHref ELSE PlainHref)]

AfterListingNoWrite(i, c) ==
    IF Len(c.images) = 0 THEN Finish(i, c, "no_images")
    ELSE Continue(i, [c EXCEPT !.pc = "download", !.idx = 1])

AfterListing(i, c) ==
    IF Len(c.images) = 0 THEN Continue(i, [c EXCEPT !.pc = "write_empty"])
    ELSE Continue(i, [c EXCEPT !.pc = "download", !.idx = 1])

FetchImageListingFailureIsEmpty(i) ==
    /\ cyc[i].pc = "listing"
    /\ LET c == [cyc[i] EXCEPT !.imageListFetches = @ + 1]
       IN  \/ Continue(i, [c EXCEPT !.pc = "write_empty"])
           \/ \E kinds \in ImageListings :
                LET imageUrls == FindTornadoImageUrls(ImagePage(kinds), c.runUrl)
                IN  AfterListing(i, [c EXCEPT
                        !.listed = TRUE,
                        !.images = [k \in 1..Len(imageUrls) |-> KindOf(imageUrls[k])]])
    /\ UNCHANGED <<session, stateDir, stateFile>>

FetchImageListing(i) ==
    /\ cyc[i].pc = "listing"
    /\ LET c == [cyc[i] EXCEPT !.imageListFetches = @ + 1]
       IN  \/ HandleFault(i, c)
           \/ \E kinds \in ImageListings :
                LET imageUrls == FindTornadoImageUrls(ImagePage(kinds), c.runUrl)
                IN  AfterListing(i, [c EXCEPT
                        !.listed = TRUE,
                        !.images = [k \in 1..Len(imageUrls) |-> KindOf(imageUrls[k])]])
    /\ UNCHANGED <<session, stateDir, stateFile>>

\* The locals of a notifyBluesky call that has ended, and what it did, are kept
\* until the invocation's next step.
Settled(c) ==
    [c EXCEPT !.pubLoginFails = 0, !.pubUploadCalls = 0, !.pubPostCalls = 0,
              !.pubPostOk = FALSE, !.pubResult = "none", !.uploaded = <<>>,
              !.imageBuffers = <<>>, !.altTexts = <<>>, !.bufs = <<>>,
              !.upIdx = 0, !.attempts = 0,
              !.postError = "none", !.wait = 0, !.pubAuth = FALSE]

\* checkNadocast, lines 131 and 184: the two writes of the state.
WriteState(i) ==
    /\ cyc[i].pc \in {"write_empty", "write_final"}
    /\ \E fault \in IoFaults :
         /\ Possible(fault)
         /\ LET w == WriteLastProcessedRunId(cyc[i].latest.runId, fault)
                c == [Settled(cyc[i]) EXCEPT !.stateWrites = @ + 1]
            IN  /\ stateDir' = w.dir
                /\ stateFile' = w.file
                /\ IF ~w.ok THEN HandleFault(i, c)
                   ELSE Finish(i, c, IF c.pc = "write_empty" THEN "no_images"
                                     ELSE "processed")
    /\ UNCHANGED session

----------------------------------------------------------------------------
\* bluesky_notifier.ts.  Each agent call is one step; the setTimeout wait that
\* follows a failed attempt is part of the step.

\* createPost, the truncation of the text: slice(0, MAX_POST_LENGTH - 3) + '...'.
Ellipsis == <<Dot, Dot, Dot>>

Slice(text, end) == SubSeq(text, 1, IF end < Len(text) THEN end ELSE Len(text))

PostTextLateSlice(text) ==
    IF Len(text) > MAX_POST_LENGTH THEN Slice(text, MAX_POST_LENGTH) \o Ellipsis
    ELSE text

PostText(text) ==
    IF Len(text) > MAX_POST_LENGTH THEN Slice(text, MAX_POST_LENGTH - 3) \o Ellipsis
    ELSE text

\* createPost up to its retry loop (rt.detectFacets calls the agent only to
\* resolve mentions, and the text checkNadocast composes has none).
CreatePostEntry(c) ==
    [c EXCEPT !.pc = "post", !.attempts = 0, !.postText = PostText(c.text)]

\* uploadImages up to its first upload: the empty case and the cap.
UploadImagesEntryNoCap(c) ==
    IF Len(c.imageBuffers) = 0
    THEN CreatePostEntry([c EXCEPT !.bufs = <<>>, !.uploaded = <<>>])
    ELSE [c EXCEPT !.bufs = c.imageBuffers,
                   !.uploaded = <<>>, !.upIdx = 1, !.attempts = 0, !.pc = "upload"]

UploadImagesEntry(c) ==
    IF Len(c.imageBuffers) = 0
    THEN CreatePostEntry([c EXCEPT !.bufs = <<>>, !.uploaded = <<>>])
    ELSE [c EXCEPT !.bufs = IF Len(c.imageBuffers) > MAX_IMAGES_PER_POST
                            THEN SubSeq(c.imageBuffers, 1, MAX_IMAGES_PER_POST)
                            ELSE c.imageBuffers,
                   !.uploaded = <<>>, !.upIdx = 1, !.attempts = 0, !.pc = "upload"]

\* checkNadocast, the for-of loop: on to the next image, or to the final write.
NextImage(i, c) ==
    IF c.idx < Len(c.images)
    THEN Continue(i, [c EXCEPT !.idx = @ + 1, !.pc = "download"])
    ELSE Continue(i, [c EXCEPT !.pc = "write_final"])

\* notifyBluesky returns: checkNadocast logs the success and the loop goes on.
NotifyReturned(i, c) ==
    NextImage(i, [c EXCEPT !.pubResult = "Success", !.anySuccess = TRUE])

NotifyThrewAborts(i, c) == HandleFault(i, [c EXCEPT !.pubResult = "Failure"])

\* notifyBluesky rethrows: the catch inside the loop logs it and the loop goes on.
NotifyThrew(i, c) == NextImage(i, [c EXCEPT !.pubResult = "Failure"])

\* notifyBluesky, entry: login only without a session.
NotifyBluesky(i, c) ==
    IF ~session THEN Continue(i, [c EXCEPT !.pc = "login", !.attempts = 0])
    ELSE Continue(i, UploadImagesEntry(c))

DownloadBatches(i) ==
    /\ cyc[i].pc = "download"
    /\ LET c == [Settled(cyc[i]) EXCEPT !.downloads = @ + 1]
           all == [k \in 1..c.idx |-> k]
       IN  \/ NextImage(i, c)
           \/ NotifyBluesky(i, [c EXCEPT !.imageBuffers = all, !.altTexts = all,
                                         !.anyDownloaded = TRUE])
    /\ UNCHANGED <<session, stateDir, stateFile>>

DownloadFailureBreaks(i) ==
    /\ cyc[i].pc = "download"
    /\ LET c == [Settled(cyc[i]) EXCEPT !.downloads = @ + 1]
       IN  \/ Continue(i, [c EXCEPT !.pc = "write_final"])
           \/ NotifyBluesky(i, [c EXCEPT !.imageBuffers = <<c.idx>>, !.altTexts = <<c.idx>>,
                                         !.anyDownloaded = TRUE])
    /\ UNCHANGED <<session, stateDir, stateFile>>

\* checkNadocast, step 5a: fetchImages([imageUrl]) returns one buffer or none.
Download(i) ==
    /\ cyc[i].pc = "download"
    /\ LET c == [Settled(cyc[i]) EXCEPT !.downloads = @ + 1]
       IN  \/ NextImage(i, c)
           \/ NotifyBluesky(i, [c EXCEPT !.imageBuffers = <<c.idx>>, !.altTexts = <<c.idx>>,
                                         !.anyDownloaded = TRUE])
    /\ UNCHANGED <<session, stateDir, stateFile>>

\* login, the catch block.
LoginFailedNoThrow(i, c) ==
    LET f == [c EXCEPT !.attempts = @ + 1, !.pubLoginFails = @ + 1]
    IN  IF f.attempts >= MAX_RETRIES THEN Continue(i, UploadImagesEntry(f))
        ELSE Continue(i, f)

LoginFailed(i, c) ==
    LET f == [c EXCEPT !.attempts = @ + 1, !.pubLoginFails = @ + 1]
    IN  IF f.attempts >= MAX_RETRIES THEN NotifyThrew(i, f)
        ELSE Continue(i, [f EXCEPT !.wait = RETRY_DELAY_MS])

Login(i) ==
    /\ cyc[i].pc = "login"
    /\ LET c == [cyc[i] EXCEPT !.platformTouched = TRUE, !.wait = 0, !.pubAuth = TRUE]
       IN  \/ /\ session' = TRUE
              /\ Continue(i, UploadImagesEntry(c))
           \/ /\ UNCHANGED session
              /\ LoginFailed(i, c)
    /\ UNCHANGED <<stateDir, stateFile>>

\* uploadImages, the catch block.
UploadFailed(i, c) ==
    LET f == [c EXCEPT !.attempts = @ + 1]
    IN  IF f.attempts >= MAX_RETRIES THEN NotifyThrew(i, f)
        ELSE Continue(i, [f EXCEPT !.wait = RETRY_DELAY_MS])

Upload(i) ==
    /\ cyc[i].pc = "upload"
    /\ LET c == [cyc[i] EXCEPT !.platformTouched = TRUE, !.pubUploadCalls = @ + 1,
                               !.wait = 0]
       IN  \/ LET u == [c EXCEPT !.uploaded = Append(@, c.bufs[c.upIdx])]
              IN  IF u.upIdx < Len(u.bufs)
                  THEN Continue(i, [u EXCEPT !.upIdx = @ + 1, !.attempts = 0])
                  ELSE Continue(i, CreatePostEntry(u))
           \/ UploadFailed(i, c)
    /\ UNCHANGED <<session, stateDir, stateFile>>

\* createPost, the catch block: the rate-limit branch waits and never throws.
\* Errors agent.post may throw: a rate-limit error, a permanent one (a 4xx
\* response such as InvalidRequest), a transient one (network, 5xx, timeout).
PostErrors == {"RateLimitExceeded", "InvalidRequest", "other"}

PostFailedKeepsTrying(i, c, error) ==
    Continue(i, [c EXCEPT !.attempts = @ + 1, !.postError = error,
                          !.wait = RETRY_DELAY_MS])

PostFailed(i, c, error) ==
    LET f == [c EXCEPT !.attempts = @ + 1, !.postError = error]
    IN  IF error = "RateLimitExceeded"
        THEN LET w == [f EXCEPT !.wait = RETRY_DELAY_MS * 5]
             IN  IF w.attempts < MAX_RETRIES THEN Continue(i, w) ELSE NotifyReturned(i, w)
        ELSE IF f.attempts < MAX_RETRIES
        THEN Continue(i, [f EXCEPT !.wait = RETRY_DELAY_MS])
        ELSE NotifyThrew(i, f)

Post(i) ==
    /\ cyc[i].pc = "post"
    /\ LET c == [cyc[i] EXCEPT !.platformTouched = TRUE, !.pubPostCalls = @ + 1,
                               !.postError = "none", !.wait = 0]
       IN  \/ NotifyReturned(i, [c EXCEPT !.posts = Append(@, c.uploaded),
                                          !.pubPostOk = TRUE])
           \/ \E error \in PostErrors : PostFailed(i, c, error)
    /\ UNCHANGED <<session, stateDir, stateFile>>

----------------------------------------------------------------------------
\* The state directory and file the process may find at startup.
InitialStores ==
    {<<FALSE, NoFile>>, <<TRUE, NoFile>>, <<TRUE, File(<<>>)>>, <<TRUE, File(<<WS>>)>>}
    \cup {<<TRUE, File(r)>> : r \in RunIds}
    \cup {<<TRUE, File(<<WS>> \o r \o <<WS>>)>> : r \in RunIds}

Init ==
    /\ cyc = [i \in Invocations |-> Fresh]
    /\ isProcessing = FALSE
    /\ session = FALSE
    /\ \E st \in InitialStores : stateDir = st[1] /\ stateFile = st[2]
    /\ prev = NoSummary
    /\ \E env \in Environments : proc = [phase |-> "loading", env |-> env]

Next ==
    \/ LoadConfig
    \/ \E i \in Invocations :
        \/ TimerFire(i)
        \/ LocateYearMonth(i)
        \/ LocateDay(i)
        \/ LocateRun(i)
        \/ ReadState(i)
        \/ FetchImageListing(i)
        \/ Download(i)
        \/ Login(i)
        \/ Upload(i)
        \/ Post(i)
        \/ WriteState(i)

Spec == Init /\ [][Next]_vars

\* The steps of a running cycle: each is the return or the failure of the
\* external call the cycle awaits (an HTTP fetch, a file operation, an agent
\* call, with the timer wait that follows a failed attempt).
CycleStep ==
    \E i \in Invocations :
        \/ LocateYearMonth(i) \/ LocateDay(i) \/ LocateRun(i)
        \/ ReadState(i) \/ FetchImageListing(i) \/ Download(i)
        \/ Login(i) \/ Upload(i) \/ Post(i) \/ WriteState(i)

\* The program after its first startup, with the state directory in place
\* and no state file yet, when every external call eventually returns or
\* fails.
InitLive ==
    /\ cyc = [i \in Invocations |-> Fresh]
    /\ isProcessing = FALSE
    /\ session = FALSE
    /\ stateDir = TRUE
    /\ stateFile = NoFile
    /\ prev = NoSummary
    /\ proc = Loaded(RequiredKeys)

NextLive == (\E i \in 1..MaxLiveInvocations : TimerFire(i)) \/ CycleStep

SpecLive == InitLive /\ [][NextLive]_vars /\ WF_vars(CycleStep)

----------------------------------------------------------------------------
\* notifyBluesky as an exported function of its own: a caller hands it a text
\* and a list of image buffers, one call after the other.
Buffers == {[k \in 1..n |-> k] : n \in 0..MaxBuffers}

TextLengths ==
    {0} \cup ((MAX_POST_LENGTH - MaxTextMargin)..(MAX_POST_LENGTH + MaxTextMargin))

\* A text of n characters, no two positions alike.
Text(n) == [k \in 1..n |-> k]

\* The call has come back to its caller (past the end of the caller's loop).
CallReturned(c) == c.pc = "write_final"

CallNotifyBluesky(i) ==
    /\ cyc[i].pc = "unfired" \/ CallReturned(cyc[i])
    /\ \A j \in Invocations \ {i} : cyc[j].pc = "unfired"
    /\ \E bufs \in Buffers, n \in TextLengths :
         NotifyBluesky(i, [Fresh EXCEPT !.text = Text(n), !.imageBuffers = bufs,
                                        !.altTexts = bufs])
    /\ UNCHANGED <<session, stateDir, stateFile>>

InitPublisher ==
    /\ cyc = [i \in Invocations |-> Fresh]
    /\ isProcessing = FALSE
    /\ session = FALSE
    /\ stateDir = TRUE
    /\ stateFile = NoFile
    /\ prev = NoSummary
    /\ proc = Loaded(RequiredKeys)

NextPublisher ==
    \E i \in Invocations :
        \/ CallNotifyBluesky(i)
        \/ Login(i)
        \/ Upload(i)
        \/ Post(i)

SpecPublisher == InitPublisher /\ [][NextPublisher]_vars

----------------------------------------------------------------------------
\* The exported functions of scraper.ts called on their own, over every page
\* of at most MaxLinks links from a vocabulary of links.
SeqsUpTo(S, n) == UNION {[1..m -> S] : m \in 0..n}

StageTokens(patternRegex) ==
    CASE patternRegex = YEAR_MONTH_REGEX -> Months
      [] patternRegex = DAY_REGEX -> DayTokens
      [] patternRegex = RUN_REGEX -> RunTokens

\* The greatest token of each stage.
TopToken(patternRegex) ==
    CHOOSE t \in StageTokens(patternRegex) :
        \A u \in StageTokens(patternRegex) : ~StringGreater(u, t)

\* Links a directory page may hold: a.directory links to its subdirectories,
\* the same without the class, one whose href is not a URL, the parent link.
DirLinks(pageUrl, patternRegex) ==
    {Link("directory", Tail(pageUrl) \o <<t, "/">>) : t \in StageTokens(patternRegex)}
    \cup {Link("", Tail(pageUrl) \o <<TopToken(patternRegex), "/">>),
          Link("directory", <<BadScheme, "/", TopToken(patternRegex), "/">>),
          Link("directory", <<"..", "/">>)}

EnumRootPages(pageUrl) ==
    SeqsUpTo(DirLinks(pageUrl, YEAR_MONTH_REGEX)
             \cup {Link("directory", <<"/", d, "/">>) : d \in Days}, MaxLinks)

EnumDayPages(pageUrl) == SeqsUpTo(DirLinks(pageUrl, DAY_REGEX), MaxLinks)

EnumRunPages(pageUrl) == SeqsUpTo(DirLinks(pageUrl, RUN_REGEX), MaxLinks)

ImageLinks ==
    {Link("", h) : h \in {PlainHref, SigHref, AbsCalibHref, LifeRiskHref,
                          UpperHref, HailHref, BadHref}}

EnumImagePages == SeqsUpTo(ImageLinks, MaxLinks)

\* The run directory the image pages are fetched from.
RunDirUrl == <<Origin, "/", "202504", "/", "20250408", "/", "t00z", "/">>

\* The caller is between two calls.
CallerIdle(i) ==
    /\ cyc[i].pc \in {"unfired", "read", "done", "returned"}
    /\ \A j \in Invocations \ {i} : cyc[j].pc = "unfired"

CallFindLatestRunInfo(i) ==
    /\ CallerIdle(i)
    /\ cyc' = [cyc EXCEPT ![i] = [Fresh EXCEPT !.pc = "locate1"]]
    /\ UNCHANGED <<isProcessing, session, stateDir, stateFile, prev, proc>>

ScrapeYearMonth(i) == LocateStage(i, "locate1", EnumRootPages(StageUrl(i, "locate1")))
ScrapeDay(i) == LocateStage(i, "locate2", EnumDayPages(StageUrl(i, "locate2")))
ScrapeRun(i) == LocateStage(i, "locate3", EnumRunPages(StageUrl(i, "locate3")))

\* findTornadoImageUrls(RunDirUrl): the fetch throws, or the page is filtered.
CallFindTornadoImageUrls(i) ==
    /\ CallerIdle(i)
    /\ LET c == [Fresh EXCEPT !.pc = "returned", !.imageListFetches = 1,
                              !.pageUrl = RunDirUrl, !.runUrl = RunDirUrl]
       IN  \/ Continue(i, [c EXCEPT !.outcome = "error"])
           \/ \E page \in EnumImagePages :
                Continue(i, [c EXCEPT !.listed = TRUE, !.page = page,
                                      !.selected = FindTornadoImageUrls(page, RunDirUrl)])
    /\ UNCHANGED <<session, stateDir, stateFile>>

NextScraper ==
    \E i \in Invocations :
        \/ CallFindLatestRunInfo(i)
        \/ ScrapeYearMonth(i)
        \/ ScrapeDay(i)
        \/ ScrapeRun(i)
        \/ CallFindTornadoImageUrls(i)

InitScraper == InitPublisher

SpecScraper == InitScraper /\ [][NextScraper]_vars

----------------------------------------------------------------------------
\* Properties.

Range(q) == {q[k] : k \in DOMAIN q}
AnyRunning == \E j \in Invocations : Running(j)

\* C1: at most one invocation of checkNadocast is between taking the lock and
\* releasing it; an invocation fired while another one runs ends at once as
\* skipped, and a skipped invocation never runs later.
MutualExclusion == Cardinality({i \in Invocations : Running(i)}) <= 1

SkippedNotQueued ==
    \A i \in Invocations :
        /\ (cyc[i].pc = "unfired" /\ cyc'[i].pc # "unfired" /\ AnyRunning)
              => cyc'[i].pc = "skipped"
        /\ cyc[i].pc = "skipped" => cyc'[i] = cyc[i]

C1_NoOverlap == MutualExclusion /\ [][MutualExclusion' /\ SkippedNotQueued]_vars

C1_Witness == \E i, j \in Invocations : cyc[i].pc = "skipped" /\ Running(j)

\* C2: a cycle calls the state write only after an empty image list or after a
\* publish that reported Success and created a post; a cycle whose publishing
\* failed never writes.
C2_WriteOnlyAfterSuccessOrEmpty ==
    \A i \in Invocations :
        cyc[i].stateWrites > 0 =>
            \/ cyc[i].listed /\ cyc[i].images = <<>>
            \/ cyc[i].anySuccess /\ cyc[i].posts # <<>>

\* C3: when the cycle that ended last tried to publish run R and created no
\* post, a cycle that finds R as the latest run and reads the state treats R
\* as new (goes on to the image listing).
C3_FailedRunRetried ==
    [][\A i \in Invocations :
          (/\ cyc[i].pc = "read"
           /\ prev.tried /\ ~prev.posted
           /\ cyc[i].latest.runId = prev.runId
           /\ cyc'[i].readDone)
          => cyc'[i].pc = "listing"]_vars

\* C4: a cycle whose latest run identifier equals the stored one ends as
\* already processed after exactly the three listing fetches, with no image
\* listing fetch, download, platform call or state write, the file unchanged.
C4_NoOpCycle ==
    \A i \in Invocations :
        (cyc[i].readDone /\ cyc[i].stored.some /\ cyc[i].stored.val = cyc[i].latest.runId)
        => /\ cyc[i].pc = "done" /\ cyc[i].outcome = "already_processed"
           /\ cyc[i].listingFetches = 3
           /\ cyc[i].imageListFetches = 0
           /\ cyc[i].downloads = 0
           /\ ~cyc[i].platformTouched
           /\ cyc[i].stateWrites = 0
           /\ stateFile = cyc[i].fileAtStart

C4_Witness ==
    \E i \in Invocations :
        /\ cyc[i].readDone /\ cyc[i].stored.some
        /\ cyc[i].stored.val = cyc[i].latest.runId
        /\ cyc[i].pc = "done"

\* C5: when findLatestRunInfo returns null the cycle has ended, without a
\* state read or write, an image listing fetch, a download or a platform call,
\* and the lock is released.
C5_NotFoundEndsCycle ==
    \A i \in Invocations :
        (cyc[i].located /\ ~cyc[i].latest.found)
        => /\ cyc[i].pc = "done" /\ cyc[i].outcome = "not_found"
           /\ cyc[i].stateReads = 0 /\ cyc[i].stateWrites = 0
           /\ stateFile = cyc[i].fileAtStart
           /\ cyc[i].imageListFetches = 0
           /\ cyc[i].downloads = 0
           /\ ~cyc[i].platformTouched
           /\ ~isProcessing

C5_Witness ==
    \E i \in Invocations : cyc[i].located /\ ~cyc[i].latest.found /\ cyc[i].pc = "done"

\* C6: a new run with an empty image list makes no download and no platform
\* call; its cycle calls the state write once and, when the write returns, ends
\* with the file holding the run identifier; the next cycle that finds the same
\* latest run and reads the state ends as already processed.
EmptyListCycle ==
    \A i \in Invocations :
        (cyc[i].listed /\ cyc[i].images = <<>>)
        => /\ cyc[i].downloads = 0 /\ ~cyc[i].platformTouched
           /\ cyc[i].pc \in {"write_empty", "done"}
           /\ cyc[i].pc = "done" =>
                /\ cyc[i].stateWrites = 1
                /\ cyc[i].outcome \in {"no_images", "error"}
                /\ cyc[i].outcome = "no_images" => stateFile = File(cyc[i].latest.runId)

SeenRunIsNoOp ==
    \A i \in Invocations :
        (/\ cyc[i].pc = "read"
         /\ prev.outcome = "no_images"
         /\ cyc[i].latest.runId = prev.runId
         /\ cyc'[i].readDone)
        => cyc'[i].outcome = "already_processed"

C6_EmptyListMarksRunSeen == []EmptyListCycle /\ [][SeenRunIsNoOp]_vars

C6_Witness ==
    \E i \in Invocations :
        /\ cyc[i].outcome = "no_images"
        /\ stateFile = File(cyc[i].latest.runId)
        /\ stateFile # cyc[i].fileAtStart

\* C7: a fault inside a cycle never makes checkNadocast reject: the cycle ends
\* with the lock released, the lock is held only while a cycle runs, and the
\* timer firing that follows starts a cycle.
FaultsAreCaught ==
    /\ \A i \in Invocations :
          /\ cyc[i].pc # "rejected"
          /\ cyc[i].outcome = "error" => cyc[i].pc = "done" /\ ~isProcessing
    /\ isProcessing <=> AnyRunning

NextFiringStarts ==
    \A i \in Invocations :
        (/\ prev.outcome = "error" /\ ~AnyRunning
         /\ cyc[i].pc = "unfired" /\ cyc'[i].pc # "unfired")
        => cyc'[i].pc = "locate1"

C7_FaultsCaughtAtTopLevel == []FaultsAreCaught /\ [][NextFiringStarts]_vars

C7_Witness == \E i \in Invocations : Running(i) /\ prev.outcome = "error"

\* C8: notifyBluesky returns normally only if an agent.post call of that
\* publish succeeded.
C8_SuccessOnlyAfterPost ==
    \A i \in Invocations : cyc[i].pubResult = "Success" => cyc[i].pubPostOk

\* C9: a publish whose login failed MAX_RETRIES times has ended in Failure,
\* having made no uploadBlob and no post call.
C9_LoginExhaustedAborts ==
    \A i \in Invocations :
        cyc[i].pubLoginFails >= MAX_RETRIES
        => /\ cyc[i].pubLoginFails = MAX_RETRIES
           /\ cyc[i].pubResult = "Failure"
           /\ cyc[i].pubUploadCalls = 0
           /\ cyc[i].pubPostCalls = 0
           /\ cyc[i].pc \notin {"login", "upload", "post"}

C9_Witness == \E i \in Invocations : cyc[i].pubLoginFails = MAX_RETRIES

\* C10: of a run with more than MAX_IMAGES_PER_POST candidate images, only the
\* first MAX_IMAGES_PER_POST in the stable order that puts the sig_ images
\* first are published.
SigFirst(images) ==
    LET positions == [k \in 1..Len(images) |-> k]
        IsSig(k) == images[k] = SIG
        IsPlain(k) == images[k] # SIG
    IN  SelectSeq(positions, IsSig) \o SelectSeq(positions, IsPlain)

Published(c) == UNION {Range(post) : post \in Range(c.posts)}

C10_SigFirstCap ==
    \A i \in Invocations :
        Len(cyc[i].images) > MAX_IMAGES_PER_POST
        => Published(cyc[i]) \subseteq
               Range(SubSeq(SigFirst(cyc[i].images), 1, MAX_IMAGES_PER_POST))

\* C11: a failed download drops only that image, so a cycle that reaches the
\* final write has fetched every listed image; and when every download of the
\* run failed, the state is not written.
C11_AllDownloadsFailedNoWrite ==
    \A i \in Invocations :
        (cyc[i].listed /\ cyc[i].images # <<>> /\ cyc[i].stateWrites > 0) =>
            /\ cyc[i].downloads = Len(cyc[i].images)
            /\ cyc[i].anyDownloaded

\* C12: in uploadImages an image whose upload fails on every attempt is
\* dropped and the others are still uploaded and posted: a publish fails in
\* the upload stage only when no blob at all was uploaded.
C12_FailedUploadDropped ==
    \A i \in Invocations :
        (/\ cyc[i].pubResult = "Failure"
         /\ cyc[i].pubUploadCalls > 0
         /\ cyc[i].pubPostCalls = 0) => cyc[i].uploaded = <<>>

\* C13: every publish authenticates, and it does so before it downloads: an
\* image buffer exists, and its upload and the post are under way, only in a
\* publish that has called the login.
C13_AuthenticationFirst ==
    \A i \in Invocations :
        /\ cyc[i].imageBuffers # <<>> => cyc[i].pubAuth
        /\ cyc[i].pc \in {"upload", "post"} => cyc[i].pubAuth

\* C14: in createPost a failed submit attempt that another attempt follows is
\* followed by the long wait (5 x RETRY_DELAY_MS) exactly when the error is a
\* rate-limit error and by RETRY_DELAY_MS otherwise, and nothing is waited
\* for after the last permitted attempt.
PostAttemptFailed(c) == c.pubPostCalls > 0 /\ c.postError # "none"

C14_PostBackoff ==
    \A i \in Invocations :
        PostAttemptFailed(cyc[i]) =>
            IF cyc[i].attempts < MAX_RETRIES
            THEN cyc[i].wait = IF cyc[i].postError = "RateLimitExceeded"
                               THEN 5 * RETRY_DELAY_MS ELSE RETRY_DELAY_MS
            ELSE cyc[i].wait = 0

\* C15: createPost leaves a text of at most 300 characters as it is, and
\* replaces a longer one by a text of exactly 300 characters: the first 297
\* characters of the original followed by '...'.
Composed(c) == c.pc = "post" \/ c.pubPostCalls > 0

C15_Truncation ==
    \A i \in Invocations :
        Composed(cyc[i]) =>
            LET text == cyc[i].text
                postText == cyc[i].postText
            IN  IF Len(text) <= 300
                THEN postText = text
                ELSE /\ Len(postText) = 300
                     /\ \A k \in 1..297 : postText[k] = text[k]
                     /\ \A k \in 298..300 : postText[k] = Dot

C15_Witness ==
    \E i \in Invocations :
        /\ Composed(cyc[i])
        /\ Len(cyc[i].text) > 300
        /\ Len(cyc[i].postText) = 300
        /\ cyc[i].postText # cyc[i].text

\* C16: readLastProcessedRunId returns null and does not throw when the state
\* file is absent or its content is empty or only whitespace, the state
\* directory existing or not (no file system error other than the absences).
Blank(file) == ~file.exists \/ Trim(file.content) = <<>>

C16_AbsentOrBlankReadsNone ==
    /\ Blank(stateFile) =>
           ReadLastProcessedRunId("none") = [ok |-> TRUE, dir |-> TRUE, val |-> None]
    /\ \A i \in Invocations :
           (cyc[i].readDone /\ Blank(cyc[i].fileAtStart)) => cyc[i].stored = None

C16_Witness ==
    \E i \in Invocations :
        /\ cyc[i].readDone
        /\ cyc[i].fileAtStart = File(<<WS>>)
        /\ cyc[i].stored = None

\* C17: the state file holds one value, the last one written: after a
\* successful write the file is exactly the identifier written and
\* readLastProcessedRunId returns it, whatever the file held before.
Wrote(c) == c.pc = "done" /\ c.outcome \in {"no_images", "processed"}

C17_LastWriteWins ==
    \A i \in Invocations :
        Wrote(cyc[i]) =>
            /\ stateFile = File(Trim(cyc[i].latest.runId))
            /\ ReadLastProcessedRunId("none") =
                   [ok |-> TRUE, dir |-> TRUE, val |-> Some(Trim(cyc[i].latest.runId))]

C17_Witness ==
    \E i \in Invocations :
        /\ Wrote(cyc[i])
        /\ ~Blank(cyc[i].fileAtStart)
        /\ Trim(cyc[i].fileAtStart.content) # cyc[i].latest.runId
        /\ ReadLastProcessedRunId("none").val = Some(cyc[i].latest.runId)

\* C18: a state write that fails throws: a cycle that called the write and
\* did not leave the identifier in the file ends in the top-level handler as
\* an error, never on the 'state updated' path.
C18_WriteFailureReported ==
    \A i \in Invocations :
        cyc[i].stateWrites > 0 =>
            /\ cyc[i].pc = "done"
            /\ IF stateFile = File(cyc[i].latest.runId)
               THEN cyc[i].outcome \in {"no_images", "processed"}
               ELSE cyc[i].outcome = "error"

C18_Witness ==
    \E i \in Invocations :
        /\ cyc[i].stateWrites > 0
        /\ stateFile # File(cyc[i].latest.runId)
        /\ cyc[i].pc = "done" /\ cyc[i].outcome = "error"

\* C19: a state read that fails with an I/O error other than 'file not
\* found' aborts the cycle: no image listing fetch, no download, no platform
\* call, no state write, and the state file is as it was.
ReadThrew(c) == c.stateReads > 0 /\ ~c.readDone

C19_ReadFailureAborts ==
    \A i \in Invocations :
        ReadThrew(cyc[i]) =>
            /\ cyc[i].pc = "done" /\ cyc[i].outcome = "error"
            /\ cyc[i].imageListFetches = 0
            /\ cyc[i].downloads = 0
            /\ ~cyc[i].platformTouched
            /\ cyc[i].stateWrites = 0
            /\ stateFile = cyc[i].fileAtStart

C19_Witness ==
    \E i \in Invocations :
        /\ ReadThrew(cyc[i])
        /\ cyc[i].outcome = "error"
        /\ cyc[i].fileAtStart.exists

\* C20: findLatestRunInfo returns null as soon as one of its three stages
\* finds no directory, without fetching a deeper stage, and a run it returns
\* is built from all three stages.
C20_LocatorAllOrNothing ==
    \A i \in Invocations :
        /\ cyc[i].stageMiss > 0 =>
               /\ cyc[i].located /\ ~cyc[i].latest.found
               /\ cyc[i].latest = NoRun
               /\ cyc[i].listingFetches = cyc[i].stageMiss
               /\ cyc[i].outcome = "not_found"
        /\ (cyc[i].located /\ cyc[i].latest.found) =>
               /\ cyc[i].listingFetches = 3
               /\ cyc[i].latest.runId \in RunIds

C20_Witness ==
    \E i \in Invocations :
        /\ cyc[i].stageMiss = 2
        /\ cyc[i].listingFetches = 2
        /\ cyc[i].latest = NoRun

\* C21: a run findLatestRunInfo returns has the identifier date + "_" + time,
\* the date being the token of the directory the day stage selected and the
\* time the token of the directory the run stage selected, and runUrl is the
\* URL of that run directory.
C21_RunIdComposition ==
    \A i \in Invocations :
        (cyc[i].located /\ cyc[i].latest.found) =>
            /\ cyc[i].patternRegex = RUN_REGEX
            /\ cyc[i].dirUrl = FindLatestDirectoryUrl(cyc[i].page, RUN_REGEX, cyc[i].pageUrl)
            /\ cyc[i].runUrl = cyc[i].dirUrl.val
            /\ cyc[i].latest.runId =
                   <<MatchTail(cyc[i].pageUrl, DayTokens), "_",
                     MatchTail(cyc[i].runUrl, RunTokens)>>
            /\ MatchTail(cyc[i].pageUrl, DayTokens) # ""
            /\ MatchTail(cyc[i].runUrl, RunTokens) # ""

C21_Witness ==
    \E i \in Invocations :
        /\ cyc[i].located /\ cyc[i].latest.found
        /\ cyc[i].latest.runId = <<"20250409", "_", "t12z">>
        /\ cyc[i].runUrl = <<Origin, "/", "202504", "/", "20250409", "/", "t12z", "/">>

\* C22: findLatestDirectoryUrl looks at every hyperlink of the page, and when
\* some href matches the pattern it returns the URL of a link whose captured
\* token is the greatest of all the matching ones.
Matching(c) ==
    {k \in 1..Len(c.page) :
        c.page[k].href # <<>> /\ Match(c.page[k].href, c.patternRegex) # ""}

Captured(c, k) == Match(c.page[k].href, c.patternRegex)

C22_MaximalToken ==
    \A i \in Invocations :
        (cyc[i].patternRegex # "" /\ Matching(cyc[i]) # {}) =>
            \E k \in Matching(cyc[i]) :
                /\ \A j \in Matching(cyc[i]) :
                       ~StringGreater(Captured(cyc[i], j), Captured(cyc[i], k))
                /\ cyc[i].dirUrl = ResolveUrl(cyc[i].page[k].href, cyc[i].pageUrl)
                /\ cyc[i].dirUrl.some

\* C23: on a page that was fetched and has no link matching the pattern,
\* findLatestDirectoryUrl returns null and does not throw.
C23_NoMatchIsNull ==
    \A i \in Invocations :
        (cyc[i].patternRegex # "" /\ Matching(cyc[i]) = {}) =>
            /\ cyc[i].dirUrl = None
            /\ cyc[i].errStage = 0
            /\ cyc[i].stageMiss = cyc[i].listingFetches
            /\ cyc[i].outcome = "not_found"

C23_Witness ==
    \E i \in Invocations :
        /\ cyc[i].patternRegex = DAY_REGEX
        /\ Len(cyc[i].page) = MaxLinks
        /\ Matching(cyc[i]) = {}
        /\ cyc[i].dirUrl = None

\* C25: the locator resolves the latest run on a server whose root lists the
\* 8-digit day directories directly, as it does when the root lists months.
TwoLevelRoot(c) ==
    /\ c.patternRegex = YEAR_MONTH_REGEX
    /\ \E k \in 1..Len(c.page) :
           /\ c.page[k].cls = "directory"
           /\ Len(c.page[k].href) = 3 /\ MatchTail(c.page[k].href, DayTokens) # ""
    /\ \A k \in 1..Len(c.page) : Match(c.page[k].href, YEAR_MONTH_REGEX) = ""

C25_BothLayouts ==
    \A i \in Invocations :
        TwoLevelRoot(cyc[i]) => cyc[i].stageMiss = 0 /\ cyc[i].dirUrl.some

\* C26: a listing fetch that fails is tried MAX_RETRIES times before the step
\* is given up: a locator that ended on a fetch error at stage k has made
\* k - 1 + MAX_RETRIES requests.
C26_FetchRetried ==
    \A i \in Invocations :
        cyc[i].errStage > 0 =>
            cyc[i].listingFetches = cyc[i].errStage - 1 + MAX_RETRIES

\* C24: findTornadoImageUrls returns the links whose href matches the tornado
\* image pattern and contains neither 'abs_calib' nor 'life_risk', in page
\* order, and no other.
Wanted(link) ==
    /\ TornadoImgRegexTest(link.href)
    /\ ~Includes(link.href, "abs_calib")
    /\ ~Includes(link.href, "life_risk")

Filtered(c) == c.pc = "returned" /\ c.listed

C24_FilterAsStated ==
    \A i \in Invocations :
        Filtered(cyc[i]) =>
            LET wanted == SelectSeq(cyc[i].page, Wanted)
            IN  /\ Len(cyc[i].selected) = Len(wanted)
                /\ \A k \in 1..Len(wanted) :
                       ResolveUrl(wanted[k].href, cyc[i].pageUrl) = Some(cyc[i].selected[k])

\* C24, with the links whose href is not a URL left out: the result is, in
\* page order, the URL of every link whose href matches the pattern, contains
\* neither exclusion substring and resolves against the run directory URL.
WantedAndValid(link) ==
    Wanted(link) /\ ResolveUrl(link.href, RunDirUrl).some

C24_FilterOfValidLinks ==
    \A i \in Invocations :
        Filtered(cyc[i]) =>
            LET wanted == SelectSeq(cyc[i].page, WantedAndValid)
            IN  /\ Len(cyc[i].selected) = Len(wanted)
                /\ \A k \in 1..Len(wanted) :
                       ResolveUrl(wanted[k].href, cyc[i].pageUrl) = Some(cyc[i].selected[k])
                /\ \A k \in 1..Len(cyc[i].page) :
                       Includes(cyc[i].page[k].href, "abs_calib") =>
                           \A j \in 1..Len(cyc[i].selected) :
                               ~Includes(cyc[i].selected[j], "abs_calib")

C24_Witness ==
    \E i \in Invocations :
        /\ Filtered(cyc[i])
        /\ cyc[i].page = <<Link("", AbsCalibHref), Link("", SigHref)>>
        /\ cyc[i].selected = <<RunDirUrl \o SigHref>>

\* C27: a permanent error (a 4xx response) is not retried: after an agent.post
\* call that threw one, the publish has failed, having made that one call.
C27_PermanentNotRetried ==
    \A i \in Invocations :
        cyc[i].postError = "InvalidRequest" =>
            /\ cyc[i].pubPostCalls = 1
            /\ cyc[i].pc # "post"
            /\ cyc[i].pubResult = "Failure"

\* C29: a post references at most 4 blobs and at most 4 blobs are uploaded in
\* one publish, whatever number of image buffers notifyBluesky was given.
C29_MediaCap ==
    \A i \in Invocations :
        /\ Len(cyc[i].uploaded) <= 4
        /\ Len(cyc[i].bufs) <= 4
        /\ \A k \in 1..Len(cyc[i].posts) : Len(cyc[i].posts[k]) <= 4

C29_Witness ==
    \E i \in Invocations :
        /\ Len(cyc[i].imageBuffers) > 4
        /\ Len(cyc[i].posts) = 1
        /\ Len(cyc[i].posts[1]) = 4

\* C30: each retry loop makes at most MAX_RETRIES calls: a login, an upload
\* of one image or a post submission is called only after fewer than
\* MAX_RETRIES failed attempts of its loop, so one publish makes at most 3
\* login calls, 3 upload calls per image and 3 post calls.
C30_RetryLoopsBounded ==
    \A i \in Invocations :
        /\ cyc[i].pc \in {"login", "upload", "post"} => cyc[i].attempts < MAX_RETRIES
        /\ cyc[i].attempts <= MAX_RETRIES
        /\ cyc[i].pubLoginFails <= MAX_RETRIES
        /\ cyc[i].pubUploadCalls <= MAX_RETRIES * Len(cyc[i].bufs)
        /\ cyc[i].pubPostCalls <= MAX_RETRIES

C30_Witness ==
    \E i \in Invocations :
        /\ cyc[i].pubLoginFails = MAX_RETRIES - 1
        /\ cyc[i].pubUploadCalls = MAX_RETRIES * Len(cyc[i].bufs)
        /\ Len(cyc[i].bufs) > 1
        /\ cyc[i].pubPostCalls = MAX_RETRIES

\* C28: when a required configuration value is absent at startup, the process
\* ends while the configuration is loaded: no cycle ever starts, nothing is
\* fetched or sent, and the state directory and file are left as found.
Untouched ==
    /\ \A i \in Invocations : cyc[i] = Fresh
    /\ ~isProcessing /\ ~session /\ prev = NoSummary
    /\ <<stateDir, stateFile>> \in InitialStores

C28_MissingConfigAborts ==
    /\ proc.phase # "running" => Untouched
    /\ RequiredKeys \ proc.env # {} => proc.phase \in {"loading", "aborted"}

C28_Witness ==
    /\ proc.phase = "aborted"
    /\ "BLUESKY_APP_PASSWORD" \notin proc.env
    /\ Untouched

\* C31: isProcessing is true exactly while an invocation of checkNadocast is
\* between taking the lock and its end; it is false once the cycle has ended,
\* on every exit path, and the end of one cycle never clears the flag while
\* another cycle runs.
Ended(c) == c.pc \in {"done", "rejected"}

C31_FlagFollowsCycle ==
    /\ isProcessing <=> \E i \in Invocations : Running(i)
    /\ \A i \in Invocations :
          Ended(cyc[i]) /\ (\A j \in Invocations : ~Running(j)) => ~isProcessing

C31_Witness ==
    \E i, j \in Invocations :
        /\ cyc[i].pc = "retired" /\ cyc[j].pc = "skipped"
        /\ prev.outcome = "error" /\ ~isProcessing

\* C32: an invocation that finds the lock taken returns at once: it makes no
\* fetch and no platform call, does not read or write the state, leaves
\* isProcessing true and the running cycle as it was, and does nothing later.
Skips(i) == cyc[i].pc = "unfired" /\ cyc'[i].pc = "skipped"

SkipChangesNothing ==
    \A i \in Invocations :
        /\ Skips(i) =>
              /\ isProcessing /\ isProcessing'
              /\ cyc'[i] = [Fresh EXCEPT !.pc = "skipped"]
              /\ UNCHANGED <<session, stateDir, stateFile, prev>>
              /\ \A j \in Invocations : Running(j) => cyc'[j] = cyc[j]
        /\ (cyc[i].pc = "unfired" /\ isProcessing /\ cyc'[i] # cyc[i]) => Skips(i)
        /\ cyc[i].pc = "skipped" => cyc'[i].pc = "skipped"

C32_SkipChangesNothing == [][SkipChangesNothing]_vars

C32_Witness ==
    \E i, j \in Invocations :
        cyc[i].pc = "skipped" /\ cyc[j].pc = "post" /\ isProcessing /\ session

\* C33: a cycle that found a new run with at least one image calls
\* writeLastProcessedRunId(latestRun.runId) after the per-image loop whatever
\* the loop did, also when no post was created; the cycle then ends as
\* processed with the file holding the run identifier, unless that write
\* itself throws.
EnteredLoop(c) == c.listed /\ c.images # <<>>

InLoopPcs == {"login", "upload", "post"}

C34_LoopGoesOn ==
    \A i \in Invocations :
        LET c == cyc[i]
        IN  EnteredLoop(c) =>
              /\ c.idx \in 1..Len(c.images)
              /\ c.pc = "download" => c.downloads = c.idx - 1
              /\ c.pc \in InLoopPcs => c.downloads = c.idx
              /\ c.pc = "write_final" \/ Ended(c) =>
                    c.downloads = Len(c.images) /\ c.idx = Len(c.images)

C34_Witness ==
    \E i \in Invocations :
        /\ cyc[i].pc = "download" /\ cyc[i].idx = 2
        /\ cyc[i].pubResult = "Failure" /\ cyc[i].posts = <<>>

\* C35: checkNadocast publishes one post per image: the notifyBluesky call of
\* a loop iteration carries the buffer and the alt text of that iteration's
\* image and nothing else, there is at most one call per selected image, and
\* every post created embeds exactly one blob.
C35_OnePostPerImage ==
    \A i \in Invocations :
        LET c == cyc[i]
        IN  /\ c.pc \in InLoopPcs =>
                  /\ c.imageBuffers = <<c.idx>> /\ c.altTexts = <<c.idx>>
                  /\ Len(c.uploaded) <= 1
            /\ c.downloads <= Len(c.images)
            /\ Len(c.posts) <= c.downloads
            /\ \A k \in 1..Len(c.posts) : Len(c.posts[k]) = 1

C35_Witness ==
    \E i \in Invocations :
        /\ Len(cyc[i].images) = 2 /\ cyc[i].pc = "write_final"
        /\ cyc[i].posts = <<(<<1>>), (<<2>>)>>

\* C36: when the fetch of the run's image listing throws, the cycle ends in the
\* top-level handler with no download, no platform call and no state write;
\* the state file is as the cycle found it, so a read of it still gives
\* something other than the run identifier and the run is new again.
ListingFetchFailed(c) == c.imageListFetches = 1 /\ ~c.listed /\ c.pc # "listing"

Started(c) == c.pc \in RunningPcs \/ Ended(c)

Persisted(file) ==
    IF file.exists /\ Len(Trim(file.content)) > 0 THEN Some(Trim(file.content))
    ELSE None

C37_StateIsInitialOrLocated ==
    \A i \in Invocations :
        LET c == cyc[i]
        IN  Started(c) =>
              /\ \/ Persisted(stateFile) = Persisted(c.fileAtStart)
                 \/ c.latest.found /\ Persisted(stateFile) = Some(c.latest.runId)
              /\ c.stateWrites <= 1
              /\ c.stateWrites = 1 => Ended(c)

\* C38: when every external call eventually returns or fails, a cycle that
\* has started eventually ends and the in-progress flag is eventually
\* released; and a cycle for a new run in which every call succeeded has
\* ended with the state file holding the new run identifier.
AllCallsSucceeded(c) ==
    /\ Ended(c) /\ c.outcome # "error"
    /\ c.latest.found /\ c.readDone /\ c.listed
    /\ Len(c.posts) = Len(c.images)

SuccessfulCycleWrites ==
    \A i \in Invocations :
        AllCallsSucceeded(cyc[i]) =>
            /\ cyc[i].stateWrites = 1
            /\ Persisted(stateFile) = Some(cyc[i].latest.runId)

CycleInProgress == isProcessing \/ \E i \in Invocations : Running(i)

C38_CyclesEnd ==
    /\ CycleInProgress ~> ~CycleInProgress
    /\ []SuccessfulCycleWrites

C38_Witness ==
    \E i \in Invocations :
        /\ AllCallsSucceeded(cyc[i]) /\ Len(cyc[i].images) = 2
        /\ ~isProcessing /\ stateFile = File(cyc[i].latest.runId)
====
